---- MODULE Spec2Model ----
(***************************************************************************)
(* Model of kindle_download_all.py: locating the library list, resolving   *)
(* the start index, and the traversal loop that opens the context menu of  *)
(* every list item and triggers its download command.                      *)
(*                                                                         *)
(* The host application (Kindle's accessibility tree) is the environment:  *)
(* every call into it that the code guards with try/except may succeed or  *)
(* fail, and what it shows (lists, items, focus, menus) is drawn from      *)
(* bounded sets.                                                           *)
(*                                                                         *)
(* Python's Optional values are sequences of length at most one:           *)
(* None is <<>>, a value v is <<v>>.                                       *)
(***************************************************************************)
EXTENDS Integers, Sequences, FiniteSets, Bags, TLC

VARIABLES
    pc,               \* position of the script
    lists,            \* host: the List controls under the main window, in tree order
    library,          \* main: index in lists of the control locate_library returned (0: it raised)
    items,            \* host: the elements library.get_item(i) yields, i = 0..Len(items)-1
    start_from,       \* args.start_from (Optional)
    max_iterations,   \* args.max_iterations
    total_items,      \* main: total_items (Optional)
    focused_wrapper,  \* main: focused_wrapper (Optional element)
    start_index,      \* main: start_index
    processed_count,  \* iterate_items: processed_count
    index,            \* iterate_items: index
    last_identity,    \* iterate_items: last_identity (Optional identity)
    current_id,       \* iterate_items: current_id (Optional: unset before the first fetch)
    menu,             \* host: the context menu ("closed", "nocmd", "cmd")
    menuAt,           \* host: tick after Shift+F10 at which the command item becomes usable
    fetched,          \* log: the indices passed to library.get_item by iterate_items
    keys,             \* log: the bag of keys sent with send_keys
    out,              \* log: the bag of lines printed
    trace,            \* log: the host calls made by the last step, with their outcomes
    poll_timeout,     \* find_download_menu_item: the timeout it is called with, in ticks
    command,          \* host: the command item the context menu shows (Optional)
    found,            \* find_download_menu_item: <<search spec that matched (0: None
                      \* returned), tick of the return>>; <<>> before the call
    failing_specs     \* host: the search specs whose resolution raises at once

vars == <<pc, lists, library, items, start_from, max_iterations, total_items,
          focused_wrapper, start_index, processed_count, index, last_identity,
          current_id, menu, menuAt, fetched, keys, out, trace, poll_timeout,
          command, found, failing_specs>>

(***************************************************************************)
(* Bounds of the model.                                                    *)
(***************************************************************************)
MaxLists == 2        \* List controls under the main window
MaxChildren == 2     \* ListItem descendants of one List control
MaxRuntimeId == 1    \* distinct runtime ids among the library's items
MaxItems == 3        \* items the library yields before get_item fails
MaxTotal == 3        \* greatest item count the library reports
MaxStartFrom == 4    \* greatest --start-from
MaxStartIndex == 2   \* greatest start index iterate_items is entered with
MaxIterArg == 3      \* greatest --max-iterations
MaxTimeout == 14     \* greatest timeout find_download_menu_item is tried with, in ticks
MaxAppear == 14      \* latest tick at which the command item appears during such a call

(***************************************************************************)
(* Program constants.  Durations are in ticks of 0.05 s.                   *)
(***************************************************************************)
DEFAULT_MAX_ITERATIONS == 10000
MENU_APPEAR_TIMEOUT == 40
CONTEXT_MENU_DELAY == 6
TRIGGER_TIMEOUT == 10
WAIT_TIMEOUT == 2
POLL_SLEEP == 1
PREFERRED_LIST_IDS == <<"compact", "row">>

None == <<>>
Some(v) == <<v>>
Max(a, b) == IF a >= b THEN a ELSE b

(***************************************************************************)
(* locate_library                                                          *)
(***************************************************************************)
AutoIds == {"compact", "row", "other"}

\* A List control: its automation id and the visible flags of its ListItem
\* descendants.
ListControls ==
    [auto_id : AutoIds,
     children : UNION {[1..n -> BOOLEAN] : n \in 0..MaxChildren}]

\* visible_items: the descendants whose element_info.visible is true.
visible_items(ctrl) == SelectSeq(ctrl.children, LAMBDA v : v)

\* main_window.child_window(auto_id=..., control_type="List") resolved by
\* as_wrapper: the index of the one List control with that automation id;
\* 0 when resolution raises (ElementNotFoundError when none matches,
\* ElementAmbiguousError when several do), which the loop answers with
\* continue.
child_window(ls, auto_id) ==
    LET m == {i \in 1..Len(ls) : ls[i].auto_id = auto_id}
    IN  IF Cardinality(m) = 1 THEN CHOOSE i \in m : TRUE ELSE 0

\* The loop over PREFERRED_LIST_IDS from position k: the first preferred id
\* that resolves to a control with a visible item; 0 when the loop falls
\* through.
RECURSIVE PreferredScan(_, _)
PreferredScan(ls, k) ==
    IF k > Len(PREFERRED_LIST_IDS) THEN 0
    ELSE LET w == child_window(ls, PREFERRED_LIST_IDS[k])
         IN  IF w # 0 /\ Len(visible_items(ls[w])) > 0 THEN w
             ELSE PreferredScan(ls, k + 1)

\* line 114: a candidate replaces the best match only with strictly more
\* visible items.
BestUpdate(count, best_count) == count > best_count

\* The loop over main_window.descendants(control_type="List") from position i.
RECURSIVE BestScan(_, _, _, _)
BestScan(ls, i, best_match, best_count) ==
    IF i > Len(ls) THEN <<best_match, best_count>>
    ELSE LET n == Len(visible_items(ls[i]))
         IN  IF BestUpdate(n, best_count)
             THEN BestScan(ls, i + 1, i, n)
             ELSE BestScan(ls, i + 1, best_match, best_count)

\* What main_window.descendants(control_type="List") (line 107, in no try)
\* does: it returns the List controls, raises ElementNotFoundError, or raises
\* another error.
ListingOutcomes == {"ok", "not_found", "error"}

\* locate_library: the index of the returned control; 0 when it raises
\* ElementNotFoundError (line 123, or line 107 passing on that of the
\* listing), -1 when it raises the other error of the listing.  The listing
\* is reached only when no preferred id qualifies.
locate_library(ls, listing) ==
    LET p == PreferredScan(ls, 1)
        b == BestScan(ls, 1, 0, 0)
    IN  IF p # 0 THEN p
        ELSE IF listing = "not_found" THEN 0
        ELSE IF listing = "error" THEN -1
        ELSE IF b[1] # 0 /\ b[2] # 0 THEN b[1]
        ELSE 0

(***************************************************************************)
(* Elements and item_identity                                              *)
(***************************************************************************)
\* A list item as get_item returns it: element_info's runtime_id (Optional
\* sequence of integers), name, automation_id and control_type (Optional).
RuntimeItem(k) ==
    [runtime_id |-> Some(<<42, k>>), name |-> "book",
     automation_id |-> None, control_type |-> Some("ListItem")]

FallbackItem ==
    [runtime_id |-> None, name |-> "book",
     automation_id |-> None, control_type |-> Some("ListItem")]

\* The element that has keyboard focus when it is no list item.
EditElement ==
    [runtime_id |-> Some(<<7>>), name |-> "search",
     automation_id |-> None, control_type |-> Some("Edit")]

\* A list item whose element_info exposes neither a runtime id nor a name.
NamelessItem ==
    [runtime_id |-> None, automation_id |-> None, control_type |-> Some("ListItem")]

LibraryItems ==
    {RuntimeItem(k) : k \in 1..MaxRuntimeId} \cup {FallbackItem, NamelessItem}

\* line 66, "if runtime_id:": neither None nor empty.
Truthy(rid) == rid # None /\ rid[1] # <<>>

\* item_identity (lines 61-73) where it returns.
item_identity(e) ==
    IF Truthy(e.runtime_id)
    THEN <<"runtime", e.runtime_id[1]>>
    ELSE <<"fallback", e.name, e.automation_id, e.control_type>>

\* line 70 reads info.name without a default: item_identity raises
\* AttributeError when the runtime id is absent or empty and the element
\* exposes no name.
item_identity_raises(e) ==
    ~Truthy(e.runtime_id) /\ "name" \notin DOMAIN e

\* library.get_item(i): Some(element), or None when the call raises.
get_item(its, i) ==
    IF i >= 0 /\ i < Len(its) THEN Some(its[i + 1]) ELSE None

\* get_focused_list_item (lines 180-190) on the host's focused element.
get_focused_list_item(focused) ==
    IF focused # None /\ focused[1].control_type = Some("ListItem")
    THEN focused ELSE None

(***************************************************************************)
(* Start-index resolution                                                  *)
(***************************************************************************)
\* What find_start_index yields when item_identity raises inside it (lines
\* 204, 212, 222, each in no try).
Raises == -1

RECURSIVE StartScanOneBased(_, _, _, _)
StartScanOneBased(its, target_id, idx, limit) ==
    IF idx >= limit THEN 0
    ELSE LET candidate == get_item(its, idx)
         IN  IF candidate = None THEN 0
             ELSE IF item_identity_raises(candidate[1]) THEN Raises
             ELSE IF item_identity(candidate[1]) = target_id THEN idx + 1
             ELSE StartScanOneBased(its, target_id, idx + 1, limit)

\* The scan loops of find_start_index (lines 206-215 and 217-224) from idx,
\* with limit the loop bound.
RECURSIVE StartScan(_, _, _, _)
StartScan(its, target_id, idx, limit) ==
    IF idx >= limit THEN 0
    ELSE LET candidate == get_item(its, idx)
         IN  IF candidate = None THEN 0
             ELSE IF item_identity_raises(candidate[1]) THEN Raises
             ELSE IF item_identity(candidate[1]) = target_id THEN idx
             ELSE StartScan(its, target_id, idx + 1, limit)

ScanBoundIgnoringTotal(total) == DEFAULT_MAX_ITERATIONS
\* The bound of the scan: range(total_items) (line 217), or the safety bound
\* when the total is unknown (line 207).
ScanBound(total) == IF total = None THEN DEFAULT_MAX_ITERATIONS ELSE total[1]

\* find_start_index (lines 200-224): the index it returns, or Raises.
find_start_index(its, target_wrapper, total) ==
    IF target_wrapper = None THEN 0
    ELSE IF item_identity_raises(target_wrapper[1]) THEN Raises
    ELSE StartScan(its, item_identity(target_wrapper[1]), 0, ScanBound(total))

\* The library.get_item calls of the scan loops (lines 209 and 219) from idx,
\* each with the index it asks for: the scan goes on while the fetch
\* succeeds, item_identity returns and the identity differs.
RECURSIVE ScanCalls(_, _, _, _)
ScanCalls(its, target_id, idx, limit) ==
    IF idx >= limit THEN <<>>
    ELSE LET candidate == get_item(its, idx)
         IN  <<<<"get_item", idx>>>>
             \o (IF candidate = None THEN <<>>
                 ELSE IF item_identity_raises(candidate[1]) THEN <<>>
                 ELSE IF item_identity(candidate[1]) = target_id THEN <<>>
                 ELSE ScanCalls(its, target_id, idx + 1, limit))

\* The library.get_item calls find_start_index makes.
find_start_index_calls(its, target_wrapper, total) ==
    IF target_wrapper = None THEN <<>>
    ELSE IF item_identity_raises(target_wrapper[1]) THEN <<>>
    ELSE ScanCalls(its, item_identity(target_wrapper[1]), 0, ScanBound(total))

ExplicitIndexUnclamped(g) == g - 1
\* main, line 304.
ExplicitIndex(g) == Max(g - 1, 0)

ExceedsTotalStrictly(s, total) == total # None /\ s > total[1]
\* main, line 305: the explicit index is beyond the reported total.
ExceedsTotal(s, total) == total # None /\ s >= total[1]

\* main, line 309.
LastItemIndex(total) == Max(total[1] - 1, 0)

\* main, lines 303-309: the start index for an explicit --start-from g.
explicit_start(g, total) ==
    IF ExceedsTotal(ExplicitIndex(g), total)
    THEN LastItemIndex(total)
    ELSE ExplicitIndex(g)

(***************************************************************************)
(* find_download_menu_item                                                 *)
(***************************************************************************)
\* search_specs (lines 129-134): 1 the automation id, then for each keyword
\* its exact title and its pattern.
NumSearchSpecs == 5

\* One pass of the for loop (lines 138-150) from search spec j at tick now.
\* The command item is usable from tick at on and matches the specs in
\* matching.  For a spec in failing, desktop.window (line 140) or spec.wait
\* (line 145) raises at once, something other than the timeout of the wait:
\* the loop goes on to the next spec and no time has passed (lines 141-142,
\* 149-150).  For the others spec.wait returns as soon as the item is
\* usable, and raises after WAIT_TIMEOUT otherwise (lines 147-148).
\* Result: <<spec that matched or 0, tick>>.
RECURSIVE ScanSpecs(_, _, _, _, _)
ScanSpecs(j, now, at, matching, failing) ==
    IF j > NumSearchSpecs THEN <<0, now>>
    ELSE IF j \in failing THEN ScanSpecs(j + 1, now, at, matching, failing)
    ELSE IF j \in matching /\ at < now + WAIT_TIMEOUT THEN <<j, Max(now, at)>>
    ELSE ScanSpecs(j + 1, now + WAIT_TIMEOUT, at, matching, failing)

PollMenuOnePass(now, deadline, at, matching, failing) ==
    IF now >= deadline THEN <<0, now>> ELSE ScanSpecs(1, now, at, matching, failing)
\* The while loop (lines 137-151).
RECURSIVE PollMenu(_, _, _, _, _)
PollMenu(now, deadline, at, matching, failing) ==
    IF now >= deadline THEN <<0, now>>
    ELSE LET r == ScanSpecs(1, now, at, matching, failing)
         IN  IF r[1] # 0 THEN r
             ELSE PollMenu(r[2] + POLL_SLEEP, deadline, at, matching, failing)

\* find_download_menu_item(timeout) called at tick now (lines 126-153):
\* <<0, tick>> stands for None.
find_download_menu_item(now, timeout, at, matching, failing) ==
    PollMenu(now, now + timeout, at, matching, failing)

\* open_context_menu (lines 156-160), with Shift+F10 sent at tick 0.
open_context_menu(at, matching, failing) ==
    find_download_menu_item(CONTEXT_MENU_DELAY, MENU_APPEAR_TIMEOUT,
                            at, matching, failing)[1] # 0

\* The sets of search specs that may fail at once.
FailingSpecs == SUBSET (1..NumSearchSpecs)

\* The command item a context menu shows: whether it carries
\* DOWNLOAD_MENU_AUTO_ID, which of MENU_TITLE_KEYWORDS (1, 2; 0: neither) its
\* title contains, and whether the title is exactly that keyword.
CommandItems ==
    {c \in [auto_id : BOOLEAN, keyword : 0..2, exact : BOOLEAN] :
        /\ (c.auto_id \/ c.keyword # 0)
        /\ (c.keyword = 0 => ~c.exact)}

\* The search specs (by position in search_specs) that resolve to the item.
SpecMatches(c) ==
    (IF c.auto_id THEN {1} ELSE {})
    \cup (IF c.keyword # 0 /\ c.exact THEN {2 * c.keyword} ELSE {})
    \cup (IF c.keyword # 0 THEN {2 * c.keyword + 1} ELSE {})

\* Ticks after Shift+F10 at which the host makes the command item usable.
AppearTicks == {0, 45, 48, 60}

(***************************************************************************)
(* focus_item                                                              *)
(***************************************************************************)
\* The calls focus_item makes (lines 48-58), each with its outcome, given
\* which of them succeed.
FocusCalls(scroll_ok, focus_ok, select_ok, click_ok) ==
    <<<<"scroll_into_view", scroll_ok>>, <<"set_focus", focus_ok>>>>
    \o (IF focus_ok THEN <<>> ELSE <<<<"select", select_ok>>>>)
    \o (IF focus_ok \/ select_ok THEN <<>> ELSE <<<<"click_input", click_ok>>>>)

\* focus_item raises: the exception of click_input (line 58) is the only one
\* no except clause catches.
FocusRaises(scroll_ok, focus_ok, select_ok, click_ok) ==
    ~focus_ok /\ ~select_ok /\ ~click_ok

(***************************************************************************)
(* iterate_items: the decisions of the loop                                *)
(***************************************************************************)
LoopGuardInclusive(count, limit) == count <= limit
\* line 232
LoopGuard(count, limit) == count < limit

IsDuplicateUnwrapped(last, cid) == last # None /\ cid = last
\* line 240
IsDuplicate(last, cid) == last # None /\ cid = last[1]

NextCountStaying(count) == count
\* line 245
NextCount(count) == count + 1

NextIndexSkipping(i) == i + 2
\* line 260
NextIndex(i) == i + 1

CapReachedStrictly(count, limit) == count > limit
\* line 264
CapReached(count, limit) == count >= limit

\* A printed line: its kind and the number it shows (0: none).
Line(kind, n) == [kind |-> kind, n |-> n]

\* The log b with one more occurrence of e.
Logged(b, e) == b (+) SetToBag({e})

(***************************************************************************)
(* Initial states                                                          *)
(***************************************************************************)
SeqsUpTo(S, n) == UNION {[1..k -> S] : k \in 0..n}

Windows == SeqsUpTo(ListControls, MaxLists)
ItemLists == SeqsUpTo(LibraryItems, MaxItems)
StartFromArgs == {None} \cup {Some(g) : g \in -1..MaxStartFrom}
MaxIterationsArgs == -1..MaxIterArg
Totals == {None} \cup {Some(t) : t \in 0..MaxTotal}
FocusStates == {None} \cup {Some(e) : e \in LibraryItems \cup {EditElement}}

\* A main window in which locate_library finds the library.
LocatedWindow == <<[auto_id |-> "compact", children |-> <<TRUE>>]>>

\* The host and the logs before the script has touched anything.
Untouched ==
    /\ current_id = None
    /\ last_identity = None
    /\ processed_count = 0
    /\ menu = "closed"
    /\ menuAt = 0
    /\ fetched = <<>>
    /\ keys = EmptyBag
    /\ trace = <<>>
    /\ poll_timeout = 0
    /\ command = None
    /\ found = None
    /\ failing_specs = {}

\* main has parsed its arguments and is about to connect to Kindle
\* (line 291).
InitLocate ==
    /\ pc = "connect"
    /\ lists \in Windows
    /\ library = 0
    /\ items = <<>>
    /\ start_from = None
    /\ max_iterations = DEFAULT_MAX_ITERATIONS
    /\ total_items = None
    /\ focused_wrapper = None
    /\ start_index = 0
    /\ index = 0
    /\ out = EmptyBag
    /\ Untouched

\* main has located the library (line 297) and is about to resolve the
\* start index.
InitStart ==
    /\ pc = "located"
    /\ lists = LocatedWindow
    /\ library = locate_library(lists, "ok")
    /\ items \in ItemLists
    /\ start_from \in StartFromArgs
    /\ max_iterations = DEFAULT_MAX_ITERATIONS
    /\ total_items = None
    /\ focused_wrapper = None
    /\ start_index = 0
    /\ index = 0
    /\ out = EmptyBag
    /\ Untouched

\* main has printed the start line and iterate_items has set up its locals
\* (lines 228-230).
Init ==
    /\ pc = "loop"
    /\ lists = LocatedWindow
    /\ library = locate_library(lists, "ok")
    /\ items \in ItemLists
    /\ start_from = None
    /\ max_iterations \in MaxIterationsArgs
    /\ total_items = None
    /\ focused_wrapper = None
    /\ start_index \in 0..MaxStartIndex
    /\ index = start_index
    /\ out = SetToBag({Line("start", start_index)})
    /\ Untouched

\* The timeouts find_download_menu_item is called with: the two the program
\* uses (lines 160 and 165) and every shorter positive one.
PollTimeouts == (1..MaxTimeout) \cup {TRIGGER_TIMEOUT, MENU_APPEAR_TIMEOUT}

\* find_download_menu_item is about to be called, at tick 0, on a host whose
\* context menu is closed, shows no command item, or shows one that becomes
\* usable at tick menuAt and stays.
InitFind ==
    /\ pc = "find"
    /\ poll_timeout \in PollTimeouts
    /\ \/ /\ menu = "cmd"
          /\ command \in {Some(c) : c \in CommandItems}
          /\ menuAt \in 0..MaxAppear
       \/ /\ menu \in {"closed", "nocmd"}
          /\ command = None
          /\ menuAt = 0
    /\ found = None
    /\ failing_specs \in FailingSpecs
    /\ lists = LocatedWindow
    /\ library = locate_library(lists, "ok")
    /\ items = <<>>
    /\ start_from = None
    /\ max_iterations = DEFAULT_MAX_ITERATIONS
    /\ total_items = None
    /\ focused_wrapper = None
    /\ start_index = 0
    /\ index = 0
    /\ current_id = None
    /\ last_identity = None
    /\ processed_count = 0
    /\ fetched = <<>>
    /\ keys = EmptyBag
    /\ out = EmptyBag
    /\ trace = <<>>

\* The elements item_identity may be given: the runtime id absent, empty or
\* not, the automation id and the control type absent or not, the name
\* exposed or not.
RuntimeIds == {None, Some(<<>>)} \cup {Some(<<42, k>>) : k \in 1..MaxRuntimeId}

Elements ==
    [runtime_id : RuntimeIds,
     name : {"book", "other"},
     automation_id : {None, Some("id")},
     control_type : {None, Some("ListItem")}]
    \cup [runtime_id : RuntimeIds,
          automation_id : {None, Some("id")},
          control_type : {None, Some("ListItem")}]

\* item_identity is about to be applied to two observed elements.
InitIdentity ==
    /\ pc = "identity"
    /\ items \in [1..2 -> Elements]
    /\ lists = LocatedWindow
    /\ library = locate_library(lists, "ok")
    /\ start_from = None
    /\ max_iterations = DEFAULT_MAX_ITERATIONS
    /\ total_items = None
    /\ focused_wrapper = None
    /\ start_index = 0
    /\ index = 0
    /\ out = EmptyBag
    /\ Untouched

(***************************************************************************)
(* main                                                                    *)
(***************************************************************************)
\* What Application.connect (line 291) does: it connects, raises
\* ElementNotFoundError, or raises another error.
ConnectOutcomes == {"ok", "not_found", "error"}

\* lines 290-295: connect; ElementNotFoundError becomes SystemExit, another
\* error leaves main.  get_main_window (lines 84-91) always yields a window.
Connect ==
    /\ pc = "connect"
    /\ \E outcome \in ConnectOutcomes :
         /\ trace' = <<<<"connect", outcome = "ok">>>>
         /\ pc' = CASE outcome = "ok" -> "main"
                    [] outcome = "not_found" -> "exit"
                    [] outcome = "error" -> "crashed"
         /\ out' = IF outcome = "not_found"
                   THEN Logged(out, Line("not_running", 0)) ELSE out
    /\ UNCHANGED <<poll_timeout, command, found, failing_specs, lists, library, items,
                   start_from, max_iterations, total_items, focused_wrapper,
                   start_index, processed_count, index, last_identity, current_id,
                   menu, menuAt, fetched, keys>>

\* lines 296-299: locate_library; ElementNotFoundError becomes SystemExit,
\* another error leaves main.
LocateLibrary ==
    /\ pc = "main"
    /\ \E listing \in ListingOutcomes :
         LET r == locate_library(lists, listing)
         IN  /\ library' = Max(r, 0)
             /\ trace' =
                   (IF PreferredScan(lists, 1) = 0
                    THEN <<<<"descendants", listing = "ok">>>> ELSE <<>>)
                   \o <<<<"locate_library", r > 0>>>>
             /\ pc' = IF r > 0 THEN "located" ELSE IF r = 0 THEN "exit" ELSE "crashed"
             /\ out' = IF r = 0 THEN Logged(out, Line("fatal", 0)) ELSE out
    /\ UNCHANGED <<poll_timeout, command, found, failing_specs, lists, items,
                   start_from, max_iterations, total_items, focused_wrapper,
                   start_index, processed_count, index, last_identity, current_id,
                   menu, menuAt, fetched, keys>>

\* line 301, get_total_items (lines 193-197): the count the library reports,
\* None when item_count raises.
GetTotal ==
    /\ pc = "located"
    /\ \E t \in Totals : total_items' = t
    /\ pc' = "resolve"
    /\ UNCHANGED <<poll_timeout, command, found, failing_specs, lists, library, items, start_from, max_iterations,
                   focused_wrapper, start_index, processed_count, index,
                   last_identity, current_id, menu, menuAt, fetched, keys, out, trace>>

\* lines 303-309: an explicit --start-from.
ResolveExplicit ==
    /\ pc = "resolve"
    /\ start_from # None
    /\ start_index' = explicit_start(start_from[1], total_items)
    /\ out' = IF ExceedsTotal(ExplicitIndex(start_from[1]), total_items)
              THEN Logged(out, Line("adjust", ExplicitIndex(start_from[1]) + 1))
              ELSE out
    /\ trace' = <<>>
    /\ pc' = "announce"
    /\ UNCHANGED <<poll_timeout, command, found, failing_specs, lists, library, items, start_from, max_iterations, total_items,
                   focused_wrapper, processed_count, index, last_identity,
                   current_id, menu, menuAt, fetched, keys>>

\* lines 310-316: no --start-from; first is the element focused at line 311,
\* second the one focused after library.set_focus() (line 313, in no try:
\* when it raises, the exception leaves main), and so does that of
\* item_identity inside find_start_index (line 316).
ResolveFocused ==
    /\ pc = "resolve"
    /\ start_from = None
    /\ \E first \in FocusStates, second \in FocusStates, set_focus_ok \in BOOLEAN :
         LET w1 == get_focused_list_item(first)
             w  == IF w1 = None THEN get_focused_list_item(second) ELSE w1
         IN  IF w1 = None /\ ~set_focus_ok
             THEN /\ trace' = <<<<"get_focused_list_item", FALSE>>,
                                <<"library.set_focus", FALSE>>>>
                  /\ pc' = "crashed"
                  /\ UNCHANGED <<focused_wrapper, start_index>>
             ELSE /\ focused_wrapper' = w
                  /\ IF find_start_index(items, w, total_items) = Raises
                     THEN pc' = "crashed" /\ start_index' = start_index
                     ELSE /\ pc' = "announce"
                          /\ start_index' = find_start_index(items, w, total_items)
                  /\ trace' =
                        <<<<"get_focused_list_item", w1 # None>>>>
                        \o (IF w1 = None
                            THEN <<<<"library.set_focus", TRUE>>,
                                   <<"get_focused_list_item", w # None>>>>
                            ELSE <<>>)
                        \o find_start_index_calls(items, w, total_items)
    /\ UNCHANGED <<poll_timeout, command, found, failing_specs, lists, library, items, start_from, max_iterations, total_items,
                   processed_count, index, last_identity, current_id, menu,
                   menuAt, fetched, keys, out>>

\* lines 318-323 and 228-230: the start line, then iterate_items is entered.
Announce ==
    /\ pc = "announce"
    /\ out' = Logged(out, Line("start", start_index))
    /\ processed_count' = 0
    /\ index' = start_index
    /\ last_identity' = None
    /\ trace' = <<>>
    /\ pc' = "loop"
    /\ UNCHANGED <<poll_timeout, command, found, failing_specs, lists, library, items, start_from, max_iterations, total_items,
                   focused_wrapper, start_index, current_id, menu, menuAt,
                   fetched, keys>>

(***************************************************************************)
(* iterate_items                                                           *)
(***************************************************************************)
\* lines 232-247: the loop test, the fetch, item_identity, the duplicate
\* test, the title (window_text, line 244) and the processing line (logged
\* with its number, without the title).  item_identity (line 239),
\* window_text and the print of the title (line 247, which raises on a
\* stdout that cannot encode the title) are in no try: when one raises, the
\* exception leaves iterate_items and main.
LoopHead ==
    /\ pc = "loop"
    /\ IF LoopGuard(processed_count, max_iterations)
       THEN LET current_item == get_item(items, index)
            IN  /\ fetched' = Append(fetched, index)
                /\ IF current_item = None
                   THEN /\ out' = Logged(out, Line("end", 0))
                        /\ pc' = "after"
                        /\ trace' = <<>>
                        /\ UNCHANGED <<current_id, processed_count>>
                   ELSE IF item_identity_raises(current_item[1])
                   THEN /\ pc' = "crashed"
                        /\ trace' = <<>>
                        /\ UNCHANGED <<out, current_id, processed_count>>
                   ELSE /\ current_id' = Some(item_identity(current_item[1]))
                        /\ IF IsDuplicate(last_identity, current_id'[1])
                           THEN /\ out' = Logged(out, Line("duplicate", index + 1))
                                /\ pc' = "after"
                                /\ trace' = <<>>
                                /\ UNCHANGED processed_count
                           ELSE \E text_ok \in BOOLEAN, print_ok \in BOOLEAN :
                                  /\ trace' = <<<<"window_text", text_ok>>>>
                                  /\ IF ~text_ok
                                     THEN /\ pc' = "crashed"
                                          /\ UNCHANGED <<processed_count, out>>
                                     ELSE /\ processed_count' = NextCount(processed_count)
                                          /\ IF print_ok
                                             THEN /\ out' = Logged(out, Line("processing", index + 1))
                                                  /\ pc' = "focus"
                                             ELSE /\ out' = out
                                                  /\ pc' = "crashed"
       ELSE /\ pc' = "after"
            /\ trace' = <<>>
            /\ UNCHANGED <<fetched, out, current_id, processed_count>>
    /\ UNCHANGED <<poll_timeout, command, found, failing_specs, lists, library, items, start_from, max_iterations, total_items,
                   focused_wrapper, start_index, index, last_identity, menu,
                   menuAt, keys>>

\* lines 249-250: focus_item; when it raises, the exception leaves
\* iterate_items and main.
Focus ==
    /\ pc = "focus"
    /\ \E scroll_ok \in BOOLEAN, focus_ok \in BOOLEAN,
          select_ok \in BOOLEAN, click_ok \in BOOLEAN :
         /\ trace' = FocusCalls(scroll_ok, focus_ok, select_ok, click_ok)
         /\ pc' = IF FocusRaises(scroll_ok, focus_ok, select_ok, click_ok)
                  THEN "crashed" ELSE "menu"
    /\ UNCHANGED <<poll_timeout, command, found, failing_specs, lists, library, items, start_from, max_iterations, total_items,
                   focused_wrapper, start_index, processed_count, index,
                   last_identity, current_id, menu, menuAt, fetched, keys, out>>

\* What the host does on Shift+F10: no menu, a menu without the command, or
\* a menu whose command item c becomes usable at tick at; opened is what
\* open_context_menu then returns.
MenuReactions ==
    {[kind |-> k, at |-> 0, opened |-> open_context_menu(0, {}, f)] :
        k \in {"closed", "nocmd"}, f \in FailingSpecs}
    \cup {[kind |-> "cmd", at |-> a, opened |-> open_context_menu(a, SpecMatches(c), f)] :
            a \in AppearTicks, c \in CommandItems, f \in FailingSpecs}

\* lines 252-253, open_context_menu (lines 156-160).  send_keys (line 158)
\* is in no try: when it raises, the exception leaves iterate_items and main.
OpenContextMenu ==
    /\ pc = "menu"
    /\ \/ /\ keys' = Logged(keys, "+{F10}")
          /\ \E m \in MenuReactions :
               /\ menu' = m.kind
               /\ menuAt' = m.at
               /\ trace' = <<<<"open_context_menu", m.opened>>>>
               /\ IF m.opened
                  THEN /\ pc' = "trigger"
                       /\ out' = out
                  ELSE /\ pc' = "advance"
                       /\ out' = Logged(out, Line("skip_menu", 0))
       \/ /\ trace' = <<<<"send_keys", FALSE>>>>
          /\ pc' = "crashed"
          /\ UNCHANGED <<keys, menu, menuAt, out>>
    /\ UNCHANGED <<poll_timeout, command, found, failing_specs, lists, library, items, start_from, max_iterations, total_items,
                   focused_wrapper, start_index, processed_count, index,
                   last_identity, current_id, fetched>>

\* trigger_download_command's own search (line 165), begun at tick now for a
\* command item that is usable already.
trigger_search(now, matching, failing) ==
    find_download_menu_item(now, TRIGGER_TIMEOUT, now, matching, failing)[1] # 0

\* What the host shows when trigger_download_command looks again: the
\* command item c still there, or gone with the menu closed or still open;
\* found is what the search then yields.
MenuRemains ==
    {[kind |-> "cmd", found |-> trigger_search(0, SpecMatches(c), f)] :
        c \in CommandItems, f \in FailingSpecs}
    \cup {[kind |-> k, found |-> trigger_search(0, {}, f)] :
            k \in {"closed", "nocmd"}, f \in FailingSpecs}

trigger_download_command_InvokeOnly(item_found, invoke_ok, click_ok) ==
    item_found /\ invoke_ok
\* What trigger_download_command returns (lines 166-177), given whether its
\* search found the command item and whether invoke and click_input succeed.
trigger_download_command(item_found, invoke_ok, click_ok) ==
    item_found /\ (invoke_ok \/ click_ok)

\* line 173: the escape key is sent when invoke and click_input both raised.
SendsEscape(item_found, invoke_ok, click_ok) ==
    item_found /\ ~invoke_ok /\ ~click_ok

\* send_keys of line 173 is in no try: when it raises, trigger_download_command
\* raises.
TriggerRaises(item_found, invoke_ok, click_ok, esc_ok) ==
    SendsEscape(item_found, invoke_ok, click_ok) /\ ~esc_ok

\* The calls trigger_download_command makes (lines 165-173), each with its
\* outcome, and its return value last when it returns.
TriggerCalls(item_found, invoke_ok, click_ok, esc_ok) ==
    <<<<"find_download_menu_item", item_found>>>>
    \o (IF item_found THEN <<<<"command.invoke", invoke_ok>>>> ELSE <<>>)
    \o (IF item_found /\ ~invoke_ok
        THEN <<<<"command.click_input", click_ok>>>> ELSE <<>>)
    \o (IF SendsEscape(item_found, invoke_ok, click_ok)
        THEN <<<<"send_keys", esc_ok>>>> ELSE <<>>)
    \o (IF TriggerRaises(item_found, invoke_ok, click_ok, esc_ok) THEN <<>>
        ELSE <<<<"trigger_download_command",
                 trigger_download_command(item_found, invoke_ok, click_ok)>>>>)

\* lines 255-257, trigger_download_command (lines 163-177): invoke,
\* click_input and the send_keys of line 173 succeed or raise.  Activating
\* the command and the escape key close the menu; when send_keys raises, no
\* key arrives and the exception leaves iterate_items and main.
TriggerDownload ==
    /\ pc = "trigger"
    /\ \E m \in MenuRemains, invoke_ok \in BOOLEAN, click_ok \in BOOLEAN,
          esc_ok \in BOOLEAN :
         LET triggered == trigger_download_command(m.found, invoke_ok, click_ok)
             raises == TriggerRaises(m.found, invoke_ok, click_ok, esc_ok)
         IN  /\ trace' = TriggerCalls(m.found, invoke_ok, click_ok, esc_ok)
             /\ keys' = IF SendsEscape(m.found, invoke_ok, click_ok) /\ ~raises
                        THEN Logged(keys, "{ESC}") ELSE keys
             /\ out' = IF raises THEN out
                       ELSE Logged(out, Line(IF triggered THEN "triggered"
                                                          ELSE "skip_option", 0))
             /\ menu' = IF m.found /\ ~raises THEN "closed" ELSE m.kind
             /\ pc' = IF raises THEN "crashed" ELSE "advance"
    /\ menuAt' = 0
    /\ UNCHANGED <<poll_timeout, command, found, failing_specs, lists, library, items, start_from, max_iterations, total_items,
                   focused_wrapper, start_index, processed_count, index,
                   last_identity, current_id, fetched>>

\* lines 259-262: remember the identity, advance, send DOWN.  send_keys
\* (line 261) is in no try: when it raises, the exception leaves
\* iterate_items and main.
Advance ==
    /\ pc = "advance"
    /\ last_identity' = current_id
    /\ index' = NextIndex(index)
    /\ menuAt' = 0
    /\ \/ /\ keys' = Logged(keys, "{DOWN}")
          /\ trace' = <<>>
          /\ pc' = "loop"
       \/ /\ keys' = keys
          /\ trace' = <<<<"send_keys", FALSE>>>>
          /\ pc' = "crashed"
    /\ UNCHANGED <<poll_timeout, command, found, failing_specs, lists, library, items, start_from, max_iterations, total_items,
                   focused_wrapper, start_index, processed_count, current_id,
                   menu, fetched, out>>

\* lines 264-265: the cap line; iterate_items and main return.
Finish ==
    /\ pc = "after"
    /\ out' = IF CapReached(processed_count, max_iterations)
              THEN Logged(out, Line("cap", index)) ELSE out
    /\ trace' = <<>>
    /\ pc' = "done"
    /\ UNCHANGED <<poll_timeout, command, found, failing_specs, lists, library, items, start_from, max_iterations, total_items,
                   focused_wrapper, start_index, processed_count, index,
                   last_identity, current_id, menu, menuAt, fetched, keys>>

(***************************************************************************)
(* find_download_menu_item on its own                                      *)
(***************************************************************************)
\* The search specs that resolve to what the host shows.
Matching(cmd) == IF cmd = None THEN {} ELSE SpecMatches(cmd[1])

\* lines 126-153: one call, begun at tick 0.
FindDownloadMenuItem ==
    /\ pc = "find"
    /\ found' = find_download_menu_item(0, poll_timeout, menuAt, Matching(command),
                                        failing_specs)
    /\ trace' = <<<<"find_download_menu_item", found'[1] # 0>>>>
    /\ pc' = "returned"
    /\ UNCHANGED <<poll_timeout, command, failing_specs, lists, library, items,
                   start_from, max_iterations, total_items, focused_wrapper, start_index,
                   processed_count, index, last_identity, current_id, menu,
                   menuAt, fetched, keys, out>>

(***************************************************************************)
(* item_identity on its own                                                *)
(***************************************************************************)
\* lines 239 and 259 on two observations: the identity of the earlier one
\* is last_identity, that of the later one current_id.  The second call is
\* made only when the first returned.
ItemIdentity ==
    /\ pc = "identity"
    /\ IF item_identity_raises(items[1])
       THEN /\ trace' = <<<<"item_identity", FALSE>>>>
            /\ pc' = "raised"
            /\ UNCHANGED <<last_identity, current_id>>
       ELSE /\ last_identity' = Some(item_identity(items[1]))
            /\ IF item_identity_raises(items[2])
               THEN /\ trace' = <<<<"item_identity", TRUE>>, <<"item_identity", FALSE>>>>
                    /\ pc' = "raised"
                    /\ UNCHANGED current_id
               ELSE /\ current_id' = Some(item_identity(items[2]))
                    /\ trace' = <<<<"item_identity", TRUE>>, <<"item_identity", TRUE>>>>
                    /\ pc' = "identified"
    /\ UNCHANGED <<poll_timeout, command, found, failing_specs, lists, library, items, start_from,
                   max_iterations, total_items, focused_wrapper, start_index,
                   processed_count, index, menu, menuAt, fetched, keys, out>>

(***************************************************************************)
(* Specifications                                                          *)
(***************************************************************************)
NextIdentity == ItemIdentity

\* item_identity on every pair of elements (lines 61-73).
SpecIdentity == InitIdentity /\ [][NextIdentity]_vars

NextFind == FindDownloadMenuItem

\* find_download_menu_item for every timeout and host (lines 126-153).
SpecFind == InitFind /\ [][NextFind]_vars

NextLocate ==
    \/ Connect
    \/ LocateLibrary

NextStart ==
    \/ GetTotal
    \/ ResolveExplicit
    \/ ResolveFocused
    \/ Announce

Next ==
    \/ LoopHead
    \/ Focus
    \/ OpenContextMenu
    \/ TriggerDownload
    \/ Advance
    \/ Finish

\* connect and locate_library on every window (main, lines 290-299).
SpecLocate == InitLocate /\ [][NextLocate]_vars

\* The resolution of the start index (main, lines 301-321).
SpecStart == InitStart /\ [][NextStart]_vars

\* iterate_items (main, line 323).
Spec == Init /\ [][Next]_vars

\* iterate_items as the interpreter runs it: the script is one sequential
\* thread, every call returns or raises and every wait is timed, so a step
\* that can be taken is taken.
FairSpec == Spec /\ WF_vars(Next)

(***************************************************************************)
(* Properties                                                              *)
(***************************************************************************)
\* item_identity returns for the element.
Identifiable(e) == ~item_identity_raises(e)

\* The items of the list have identities, pairwise distinct.
Distinct(its) ==
    /\ \A i \in 1..Len(its) : Identifiable(its[i])
    /\ \A i, j \in 1..Len(its) :
          i < j => item_identity(its[i]) # item_identity(its[j])

\* The item at index i (0-based) has the identity of the item before it.
RepeatsPrevious(its, i) ==
    /\ i >= 1
    /\ i < Len(its)
    /\ Identifiable(its[i + 1])
    /\ Identifiable(its[i])
    /\ item_identity(its[i + 1]) = item_identity(its[i])

Printed(kind, n) == CopiesIn(Line(kind, n), out)
Sent(key) == CopiesIn(key, keys)

\* C1: the indices iterate_items fetches are start_index, start_index + 1,
\* start_index + 2, ...: the i-th fetch is of index start_index + i - 1, and
\* at the loop head the index to fetch next is one more than the last one
\* fetched.
C1_FetchOrder ==
    /\ \A i \in 1..Len(fetched) : fetched[i] = start_index + i - 1
    /\ pc = "loop" => index = start_index + Len(fetched)

\* C1 witness: a list of distinct items was traversed over three indices,
\* the last of them past its end, and the loop has ended.
C1_Witness ==
    /\ pc = "done"
    /\ Distinct(items)
    /\ Len(items) >= 2
    /\ Len(fetched) >= 3
    /\ fetched[Len(fetched)] = Len(items)

\* C2: when the item at index repeats the identity of the item fetched before
\* it, the loop head ends the loop with the duplicate line for index + 1 and
\* does nothing for that item: processed_count, index and the keys sent stay
\* as they were, no host call is made, and only the cap line may follow.
C2_DuplicateStops ==
    /\ [][(/\ pc = "loop"
           /\ processed_count < max_iterations
           /\ index > start_index
           /\ RepeatsPrevious(items, index))
          => (/\ pc' = "after"
              /\ out' = Logged(out, Line("duplicate", index + 1))
              /\ processed_count' = processed_count
              /\ index' = index
              /\ keys' = keys
              /\ trace' = <<>>)]_vars
    /\ [][pc = "after"
          => (/\ pc' = "done"
              /\ processed_count' = processed_count
              /\ index' = index
              /\ keys' = keys
              /\ trace' = <<>>)]_vars

\* C2 witness: the loop ended on a duplicate whose first occurrence, the only
\* item processed, was skipped because its menu did not appear.
C2_Witness ==
    /\ pc = "done"
    /\ Printed("duplicate", index + 1) = 1
    /\ processed_count = 1
    /\ Printed("skip_menu", 0) = 1
    /\ Printed("processing", index + 1) = 0
    /\ Sent("{DOWN}") = 1
    /\ Sent("+{F10}") = 1

\* The tick at which a poll that finds nothing under MENU_APPEAR_TIMEOUT
\* returns: the end of the window in which open_context_menu looks for the
\* command item.
MenuWindowEnd ==
    find_download_menu_item(CONTEXT_MENU_DELAY, MENU_APPEAR_TIMEOUT, 0, {}, {})[2]

\* The host showed no command item within that window.
NotAppeared == menu # "cmd" \/ menuAt >= MenuWindowEnd

\* C6: when the command item does not appear within the window in which
\* open_context_menu polls for it, open_context_menu returns false, the item
\* is reported as skipped and the next step is the advance to the next
\* index: trigger_download_command is not called, nothing is invoked or
\* clicked, and the loop goes on at index + 1 instead of ending with an
\* error.
C6_MenuSkip ==
    /\ [][(pc = "menu" /\ NotAppeared')
          => (/\ trace' = <<<<"open_context_menu", FALSE>>>>
              /\ out' = Logged(out, Line("skip_menu", 0))
              /\ pc' = "advance")]_vars
    /\ [][pc = "advance"
          => (/\ pc' = "loop"
              /\ index' = index + 1
              /\ trace' = <<>>
              /\ out' = out)]_vars

\* On the list, neither the end of the list nor a duplicate stops the loop
\* during the first n items from start_index.
NoNaturalEnd(n) ==
    /\ start_index + n <= Len(items)
    /\ \A i \in (start_index + 1)..(start_index + n - 1) : ~RepeatsPrevious(items, i)

Ended == pc \in {"done", "crashed"}

\* C3: with max_iterations = N >= 0 on a list where nothing else stops the
\* loop during the first N items, iterate_items never processes more than N
\* items, and when the run has ended it has processed exactly N and printed
\* the cap line with index start_index + N.
C3_CapExact ==
    (max_iterations >= 0 /\ NoNaturalEnd(max_iterations))
    => (/\ processed_count <= max_iterations
        /\ Ended => (/\ processed_count = max_iterations
                     /\ Printed("cap", start_index + max_iterations) = 1))

\* C7: on a list of n distinct items, entered at s < n with max_iterations
\* greater than n - s and no item skipped, the run that has ended has fetched
\* s..n, printed exactly the processing lines s+1..n, no cap line, and the
\* end-of-list line; with nothing focused the start index resolves to 0, and
\* --start-from 3 on a list that reports its n >= 3 items resolves to 2.
C7_FullTraversal ==
    (/\ Ended
     /\ Distinct(items)
     /\ start_index < Len(items)
     /\ max_iterations > Len(items) - start_index
     /\ Printed("skip_menu", 0) = 0
     /\ Printed("skip_option", 0) = 0)
    => (/\ pc = "done"
        /\ fetched = [i \in 1..(Len(items) - start_index + 1) |-> start_index + i - 1]
        /\ \A i \in 0..(Len(items) + 1) :
             Printed("processing", i + 1)
                = IF start_index <= i /\ i < Len(items) THEN 1 ELSE 0
        /\ Printed("triggered", 0) = Len(items) - start_index
        /\ Printed("cap", index) = 0
        /\ Printed("end", 0) = 1
        /\ \A t \in Totals : find_start_index(items, None, t) = 0
        /\ Len(items) >= 3 => explicit_start(3, Some(Len(items))) = 2)

\* The calls of a focus_item that returned are in order: select only after
\* set_focus failed, click_input only after select failed.
FocusOrder(calls) ==
    /\ Len(calls) >= 2
    /\ calls[1][1] = "scroll_into_view"
    /\ calls[2][1] = "set_focus"
    /\ Len(calls) >= 3 => (calls[3][1] = "select" /\ ~calls[2][2])
    /\ Len(calls) >= 4 => (calls[4][1] = "click_input" /\ ~calls[3][2])
    /\ Len(calls) <= 4

\* C8: focus_item never raises: whatever its four steps do, the step after
\* focus_item is open_context_menu, and the calls were made in order.
C8_FocusReturns ==
    [][pc = "focus" => (pc' = "menu" /\ FocusOrder(trace'))]_vars

\* C9: no per-item failure stops the traversal: every item taken for
\* processing is followed by the advance, so whenever the loop is at its head
\* or the run has ended, index has moved by one for every item processed.
C9_AlwaysAdvances ==
    pc \in {"loop", "after", "done", "crashed"}
        => index = start_index + processed_count

\* The outcome recorded for call name in calls: Some(outcome), None when the
\* call was not made.
Outcome(calls, name) ==
    LET made == SelectSeq(calls, LAMBDA c : c[1] = name)
    IN  IF made = <<>> THEN None ELSE Some(made[1][2])

\* Call a is recorded before call b in calls.
Before(calls, a, b) ==
    \E i, j \in 1..Len(calls) : i < j /\ calls[i][1] = a /\ calls[j][1] = b

\* C12: trigger_download_command returns true exactly when its search found
\* the command item and invoke succeeded or, after invoke failed, the click
\* succeeded.  invoke is called exactly when the item was found, the click
\* only after invoke failed, the escape key is tried exactly when invoke and
\* the click both failed, and when it is sent the result is false; the call
\* returns unless sending that key raises; when the item is not found the
\* result is false with no invoke, no click and no escape key.
C12_TriggerResult ==
    [][pc = "trigger"
       => LET item_found == Outcome(trace', "find_download_menu_item")
              invoked == Outcome(trace', "command.invoke")
              clicked == Outcome(trace', "command.click_input")
              tried == Outcome(trace', "send_keys")
              result == Outcome(trace', "trigger_download_command")
              escaped == Sent("{ESC}")' - Sent("{ESC}")
          IN  /\ item_found # None
              /\ result = None <=> tried = Some(FALSE)
              /\ result # None => trace'[Len(trace')][1] = "trigger_download_command"
              /\ result = Some(TRUE)
                 <=> (/\ item_found[1]
                      /\ \/ invoked = Some(TRUE)
                         \/ (invoked = Some(FALSE) /\ clicked = Some(TRUE)))
              /\ invoked # None <=> item_found[1]
              /\ clicked # None <=> invoked = Some(FALSE)
              /\ clicked # None => Before(trace', "command.invoke", "command.click_input")
              /\ tried # None <=> (invoked = Some(FALSE) /\ clicked = Some(FALSE))
              /\ escaped = IF tried = Some(TRUE) THEN 1 ELSE 0
              /\ escaped = 1 => result = Some(FALSE)
              /\ ~item_found[1] => (/\ result = Some(FALSE)
                                    /\ invoked = None
                                    /\ clicked = None
                                    /\ tried = None
                                    /\ escaped = 0)
              /\ Printed("triggered", 0)' - Printed("triggered", 0)
                    = IF result = Some(TRUE) THEN 1 ELSE 0]_vars

\* C12 witness: invoke failed and the fallback click triggered the download.
C12_Witness ==
    /\ pc = "advance"
    /\ trace = <<<<"find_download_menu_item", TRUE>>, <<"command.invoke", FALSE>>,
                 <<"command.click_input", TRUE>>, <<"trigger_download_command", TRUE>>>>
    /\ Sent("{ESC}") = 0
    /\ Printed("triggered", 0) = 1

\* The number of lines of the given kind in the log b.
LinesOf(b, kind) ==
    LET ls == {l \in DOMAIN b : l.kind = kind}
    IN  BagCardinality([l \in ls |-> b[l]])

PrintedKind(kind) == LinesOf(out, kind)

\* The termination reasons reported so far.
Reasons == PrintedKind("cap") + PrintedKind("end") + PrintedKind("duplicate")

\* C13 as claimed: a run of iterate_items that has returned has reported
\* exactly one termination reason, the cap exactly when processed_count
\* reached max_iterations, and the cap only when an item was processed.
C13_AsClaimed ==
    pc = "done"
    => /\ Reasons = 1
       /\ PrintedKind("cap") = 1 <=> processed_count >= max_iterations
       /\ PrintedKind("cap") = 1 => processed_count >= 1

\* C13: the loop is left either by its test, when processed_count has
\* reached max_iterations, and then without a reason printed in the loop, or
\* by a break that prints exactly one of end-of-list and duplicate.  A run
\* that has returned has reported exactly one reason: the cap, with the index
\* it stopped at, exactly when processed_count reached max_iterations, and
\* then neither of the others.  The cap is reported with no item processed
\* exactly when max_iterations <= 0.  A run that focus_item's exception ended
\* has reported none.
C13_OneReason ==
    /\ [][(pc = "loop" /\ pc' = "after")
          => IF processed_count >= max_iterations
             THEN out' = out
             ELSE /\ LinesOf(out', "end") + LinesOf(out', "duplicate") = 1
                  /\ processed_count' = processed_count]_vars
    /\ [](Reasons <= 1)
    /\ [](pc = "done"
          => /\ Reasons = 1
             /\ PrintedKind("cap") = 1 <=> processed_count >= max_iterations
             /\ PrintedKind("cap") = 1 => Printed("cap", index) = 1
             /\ (PrintedKind("cap") = 1 /\ processed_count = 0) <=> max_iterations <= 0)
    /\ [](pc = "crashed" => Reasons = 0)

\* C13 witness: a run with max_iterations = 0 has returned with the cap
\* reported and no item fetched or processed.
C13_Witness ==
    /\ pc = "done"
    /\ max_iterations = 0
    /\ Len(items) >= 1
    /\ processed_count = 0
    /\ fetched = <<>>
    /\ Printed("cap", start_index) = 1

\* The item at index i (0-based) has the identity of the item two before it
\* and not that of the item before it.
RepeatsSecondLast(its, i) ==
    /\ i >= 2
    /\ i < Len(its)
    /\ \A j \in (i - 1)..(i + 1) : Identifiable(its[j])
    /\ item_identity(its[i + 1]) = item_identity(its[i - 1])
    /\ item_identity(its[i + 1]) # item_identity(its[i])

\* C14: at the loop head of the first iteration last_identity is absent, and
\* the step that follows never ends the loop as a duplicate; at every later
\* loop head last_identity is the identity of the item at index - 1, the one
\* processed in the iteration before, whether its menu opened and its
\* command was triggered or not.  An item with the identity of the item two
\* iterations back, and not of the previous one, is taken for processing.
C14_LastIdentity ==
    /\ [](pc = "loop"
          => IF index = start_index
             THEN last_identity = None
             ELSE /\ index - 1 < Len(items)
                  /\ last_identity = Some(item_identity(items[index])))
    /\ [][(pc = "loop" /\ index = start_index)
          => PrintedKind("duplicate")' = 0]_vars
    /\ [][(/\ pc = "loop"
           /\ processed_count < max_iterations
           /\ index >= start_index + 2
           /\ RepeatsSecondLast(items, index))
          => (/\ pc' = "focus"
              /\ processed_count' = processed_count + 1
              /\ out' = Logged(out, Line("processing", index + 1)))]_vars

\* C17: no step decreases index or processed_count, and a step changes
\* either by exactly one: processed_count only where the loop head takes an
\* item for processing, index only in the advance, and a DOWN key is sent
\* only there, one key.  At every loop head index - start_index,
\* processed_count and the number of DOWN keys sent are equal, items skipped
\* for their menu or their command included.  The step that ends the loop
\* sends no DOWN key and none is sent after it.
C17_Counters ==
    /\ [][/\ processed_count' \in {processed_count, processed_count + 1}
          /\ index' \in {index, index + 1}
          /\ processed_count' # processed_count
             => (pc = "loop" /\ pc' \in {"focus", "crashed"})
          /\ index' # index => pc = "advance"
          /\ Sent("{DOWN}")' - Sent("{DOWN}") \in {0, index' - index}
          /\ pc' = "loop" => Sent("{DOWN}")' - Sent("{DOWN}") = index' - index]_vars
    /\ [](pc = "loop"
          => /\ index - start_index = processed_count
             /\ processed_count = Sent("{DOWN}"))
    /\ [][pc' \in {"after", "done", "crashed"} => Sent("{DOWN}")' = Sent("{DOWN}")]_vars
    /\ [](pc \in {"after", "done"} => Sent("{DOWN}") = index - start_index)

\* C17 witness: at the loop head after two items, one skipped because its
\* menu did not appear and one because its command was not found.
C17_Witness ==
    /\ pc = "loop"
    /\ processed_count = 2
    /\ Printed("skip_menu", 0) = 1
    /\ Printed("skip_option", 0) = 1
    /\ Sent("{DOWN}") = 2
    /\ index = start_index + 2

\* C18: whenever the DOWN key is sent, the context menu the Shift+F10 of
\* that iteration opened is closed.
C18_MenuClosedOnAdvance ==
    [][Sent("{DOWN}")' > Sent("{DOWN}") => menu = "closed"]_vars

\* C19: every run of iterate_items ends, by its return or by an exception,
\* whatever the host does and whatever max_iterations is; it never processes
\* more than max(max_iterations, 0) items, so the cap ends it on a list that
\* would go on yielding new items, and for max_iterations <= 0 no item is
\* fetched or processed and no key is sent.
C19_Terminates ==
    /\ <>Ended
    /\ [](processed_count <= Max(max_iterations, 0))
    /\ [](max_iterations <= 0
          => /\ fetched = <<>>
             /\ processed_count = 0
             /\ keys = EmptyBag
             /\ (pc = "loop" => ENABLED LoopHead))

\* C19 witness: the cap ended a run on a list whose next item could still be
\* fetched and was no duplicate.
C19_Witness ==
    /\ pc = "done"
    /\ max_iterations >= 2
    /\ processed_count = max_iterations
    /\ index < Len(items)
    /\ ~RepeatsPrevious(items, index)
    /\ PrintedKind("end") = 0
    /\ PrintedKind("duplicate") = 0
    /\ Printed("cap", index) = 1

(***************************************************************************)
(* Properties of find_download_menu_item (SpecFind)                        *)
(***************************************************************************)
\* The time one pass over the candidates takes when none matches, with the
\* sleep that follows it.
PassLength == NumSearchSpecs * WAIT_TIMEOUT + POLL_SLEEP

\* The candidates that resolve to the command item the host shows and whose
\* lookup and wait do not raise at once.
Effective == Matching(command) \ failing_specs

\* The first of them in the order of search_specs.
FirstCandidate == CHOOSE j \in Effective : \A k \in Effective : j <= k

\* The candidates before j that take their wait: those that do not raise at
\* once.
WaitsBefore(j) == Cardinality({k \in 1..(j - 1) : k \notin failing_specs})

\* C15 as claimed: a command item that appears before the deadline is found.
C15_AsClaimed ==
    (pc = "returned" /\ command # None /\ menuAt < poll_timeout)
    => found[1] # 0

\* C15: what find_download_menu_item returns is the match of a candidate
\* that resolves to the command item and does not raise, not before the item
\* is usable; a command item present when the call starts is returned in the
\* first pass by the first such candidate, after the waits of the candidates
\* before it that do not raise; None is returned only once the timeout has
\* elapsed; a command item that appears at least one pass before the
\* deadline is found, and with no command item, or with one whose candidates
\* all raise, None is returned.
C15_FindsInOrder ==
    pc = "returned"
    => /\ found[1] \in Effective \cup {0}
       /\ found[1] # 0 => found[2] >= menuAt
       /\ found[1] = 0 => found[2] >= poll_timeout
       /\ (Effective # {} /\ menuAt = 0)
          => found = <<FirstCandidate, WaitsBefore(FirstCandidate) * WAIT_TIMEOUT>>
       /\ (Effective # {} /\ menuAt + PassLength <= poll_timeout)
          => found[1] # 0
       /\ Effective = {} => found[1] = 0

\* C15 witness: a command item that the first pass missed was found by a
\* later pass, before the deadline, by the second candidate that resolves
\* to it, the first one raising.
C15_Witness ==
    /\ pc = "returned"
    /\ menuAt > 0
    /\ menuAt + PassLength <= poll_timeout
    /\ found[1] # 0
    /\ \E j \in Matching(command) \cap failing_specs : j < found[1]
    /\ found[2] >= (NumSearchSpecs - Cardinality(failing_specs)) * WAIT_TIMEOUT + POLL_SLEEP
    /\ found[2] < poll_timeout

(***************************************************************************)
(* Properties of item_identity (SpecIdentity)                              *)
(***************************************************************************)
\* The element exposes a runtime id with at least one number in it.
HasRuntimeId(e) == e.runtime_id # None /\ Len(e.runtime_id[1]) > 0

\* The fields a fallback identity is made of.
FallbackFields(e) ==
    <<IF "name" \in DOMAIN e THEN Some(e.name) ELSE None, e.automation_id, e.control_type>>

\* C20: item_identity returns for every element, whichever of runtime id,
\* name, automation id and control type it lacks.  With a non-empty runtime
\* id the result is the runtime identity of that id, otherwise the fallback
\* identity of name, automation id (or none) and control type (or none).  A
\* runtime identity never equals a fallback identity; two elements with
\* equal non-empty runtime ids have equal identities, and so have two
\* elements without one and with equal name, automation id and control type.
C20_Identity ==
    /\ pc = "identity" => ENABLED ItemIdentity
    /\ pc # "raised"
    /\ pc = "identified"
       => LET a == items[1]
              b == items[2]
              ia == last_identity[1]
              ib == current_id[1]
          IN  /\ HasRuntimeId(a) => ia = <<"runtime", a.runtime_id[1]>>
              /\ ~HasRuntimeId(a)
                 => ia = <<"fallback", a.name, a.automation_id, a.control_type>>
              /\ HasRuntimeId(b) => ib = <<"runtime", b.runtime_id[1]>>
              /\ ~HasRuntimeId(b)
                 => ib = <<"fallback", b.name, b.automation_id, b.control_type>>
              /\ HasRuntimeId(a) # HasRuntimeId(b) => ia # ib
              /\ (/\ HasRuntimeId(a)
                  /\ HasRuntimeId(b)
                  /\ a.runtime_id = b.runtime_id) => ia = ib
              /\ (/\ ~HasRuntimeId(a)
                  /\ ~HasRuntimeId(b)
                  /\ FallbackFields(a) = FallbackFields(b)) => ia = ib

(***************************************************************************)
(* Properties of the start index (SpecStart)                               *)
(***************************************************************************)
Resolved == pc \in {"announce", "loop"}

\* --start-from g was given and exceeds the reported total T.
BeyondTotal ==
    /\ start_from # None
    /\ total_items # None
    /\ start_from[1] > total_items[1]

\* C4 as claimed: for every reported total T, T = 0 included, and every
\* --start-from g > T, the resolved start index is T - 1 and lies in 0..T-1.
C4_AsClaimed ==
    (Resolved /\ BeyondTotal)
    => (/\ start_index = total_items[1] - 1
        /\ start_index \in 0..(total_items[1] - 1))

\* C4: for every --start-from g greater than the reported total T, the
\* resolved start index is T - 1, the last valid index, when T >= 1, and 0
\* when T = 0.
C4_Clamp ==
    (Resolved /\ BeyondTotal)
    => IF total_items[1] >= 1
       THEN start_index = total_items[1] - 1 /\ start_index \in 0..(total_items[1] - 1)
       ELSE start_index = 0

\* C4 witness: --start-from beyond a total of at least 2 was adjusted.
C4_Witness ==
    /\ pc = "announce"
    /\ BeyondTotal
    /\ total_items[1] >= 2
    /\ Printed("adjust", start_from[1]) = 1

\* The focused item has the identity of the item at position k (0-based).
FocusedAt(k) ==
    /\ k < Len(items)
    /\ Identifiable(items[k + 1])
    /\ Identifiable(focused_wrapper[1])
    /\ item_identity(items[k + 1]) = item_identity(focused_wrapper[1])

\* The bound of the scan: the reported total, or the safety bound.
ScanLimit ==
    IF total_items = None THEN DEFAULT_MAX_ITERATIONS ELSE total_items[1]

\* C5 as claimed: with no --start-from, the resolved start index is k for
\* every position k whose item has the focused item's identity.
C5_AsClaimed ==
    (Resolved /\ start_from = None /\ focused_wrapper # None)
    => \A k \in 0..MaxItems : FocusedAt(k) => start_index = k

\* The library.get_item calls recorded by the last step.
ScanOf(calls) == SelectSeq(calls, LAMBDA c : c[1] = "get_item")

\* find_start_index has raised: the resolution ended with an error that is
\* not the one of library.set_focus.
ScanRaised ==
    /\ pc = "crashed"
    /\ start_from = None
    /\ Outcome(trace, "library.set_focus") # Some(FALSE)

\* The positions below the bound of the scan whose item has the focused
\* item's identity.
MatchesInScan == {k \in 0..(Len(items) - 1) : k < ScanLimit /\ FocusedAt(k)}

\* C5: with no --start-from and a focused list item, the resolved start
\* index is the first position below the bound of the scan whose item has
\* the focused item's identity, and 0 when there is none: so it is k when k
\* is the first position with that identity and k is below the bound, an
\* earlier position when one below the bound carries that identity, and 0
\* when every position with that identity is at or beyond the reported
\* total.  find_start_index raises instead exactly when item_identity raises
\* for the focused item or for the item fetched last.
C5_FirstMatch ==
    /\ (Resolved /\ start_from = None /\ focused_wrapper # None)
       => /\ MatchesInScan # {}
             => /\ start_index \in MatchesInScan
                /\ \A k \in MatchesInScan : start_index <= k
          /\ MatchesInScan = {} => start_index = 0
          /\ \A k \in 0..MaxItems :
                (/\ FocusedAt(k)
                 /\ \A j \in 0..(k - 1) : ~FocusedAt(j)
                 /\ k < ScanLimit)
                => start_index = k
          /\ \A k \in 0..MaxItems :
                (/\ FocusedAt(k)
                 /\ \A j \in 0..(k - 1) : ~FocusedAt(j)
                 /\ k >= ScanLimit)
                => start_index = 0
    /\ ScanRaised
       => /\ focused_wrapper # None
          /\ LET scan == ScanOf(trace)
             IN  IF scan = <<>>
                 THEN ~Identifiable(focused_wrapper[1])
                 ELSE /\ scan[Len(scan)][2] < Len(items)
                      /\ ~Identifiable(items[scan[Len(scan)][2] + 1])
    /\ (pc = "announce" /\ start_from = None /\ focused_wrapper # None)
       => /\ Identifiable(focused_wrapper[1])
          /\ \A i \in 1..Len(ScanOf(trace)) :
                ScanOf(trace)[i][2] < Len(items)
                => Identifiable(items[ScanOf(trace)[i][2] + 1])

\* C5 witness: the focused item was found at a position after the first,
\* below the reported total, with an item of the same identity at or beyond
\* that total.
C5_Witness ==
    /\ pc = "announce"
    /\ start_from = None
    /\ focused_wrapper # None
    /\ total_items # None
    /\ start_index >= 1
    /\ FocusedAt(start_index)
    /\ \E j \in (start_index + 1)..MaxItems : FocusedAt(j) /\ j >= total_items[1]

\* The calls of the last step that ask the host for the focused element.
FocusQueriesOf(calls) ==
    SelectSeq(calls, LAMBDA c : c[1] \in {"get_focused_list_item", "library.set_focus"})

\* --start-from g was given and the total is unknown or g does not exceed it.
WithinTotal ==
    /\ start_from # None
    /\ (total_items = None \/ start_from[1] <= total_items[1])

\* C11: for every explicit --start-from g, positive, zero or negative, the
\* resolved start index is g - 1 for g >= 1 and 0 otherwise when the total is
\* unknown or g does not exceed it; the resolution always goes on to the
\* start line, the resolved index is never negative, the focused element is
\* not asked for and no item of the list is fetched.
C11_ExplicitStart ==
    /\ (pc = "resolve" /\ start_from # None) => ENABLED ResolveExplicit
    /\ (pc = "announce" /\ start_from # None)
       => /\ WithinTotal
             => start_index = IF start_from[1] >= 1 THEN start_from[1] - 1 ELSE 0
          /\ start_index >= 0
          /\ focused_wrapper = None
          /\ FocusQueriesOf(trace) = <<>>
          /\ ScanOf(trace) = <<>>
          /\ fetched = <<>>

\* C11 witness: a negative --start-from on a list that reports a total was
\* resolved to index 0.
C11_Witness ==
    /\ pc = "announce"
    /\ start_from # None
    /\ start_from[1] < 0
    /\ total_items # None
    /\ total_items[1] >= 1
    /\ start_index = 0

\* C16: find_start_index always returns (the resolution ends with no error
\* but that of library.set_focus), and what it returns is 0 or an
\* index whose item has the focused item's identity.  It fetches the indices
\* 0, 1, 2, ... in order, no more of them than the reported total, or than
\* the safety bound of 10000 when no total is reported, and none after a
\* failed fetch or a match; it returns 0 when no focused item is given
\* (without a fetch), and when none of the items it fetched has the focused
\* item's identity, which includes a fetch that failed before a match.
C16_StartIndex ==
    /\ (pc = "resolve" /\ start_from = None) => ENABLED ResolveFocused
    /\ ~ScanRaised
    /\ (pc = "announce" /\ start_from = None)
       => LET scan == ScanOf(trace)
          IN  /\ \/ start_index = 0
                 \/ focused_wrapper # None /\ FocusedAt(start_index)
              /\ \A i \in 1..Len(scan) : scan[i][2] = i - 1
              /\ Len(scan) <= IF total_items = None THEN 10000 ELSE total_items[1]
              /\ \A i \in 1..(Len(scan) - 1) :
                    scan[i][2] < Len(items) /\ ~FocusedAt(scan[i][2])
              /\ focused_wrapper = None => (start_index = 0 /\ scan = <<>>)
              /\ (/\ focused_wrapper # None
                  /\ \A i \in 1..Len(scan) : ~FocusedAt(scan[i][2]))
                 => start_index = 0
              /\ start_index # 0 => scan[Len(scan)][2] = start_index

(***************************************************************************)
(* Properties of locate_library (SpecLocate)                               *)
(***************************************************************************)
VisibleCount(i) ==
    Cardinality({k \in DOMAIN lists[i].children : lists[i].children[k]})

\* Control i is the one control with automation id id.
Resolves(id, i) ==
    /\ lists[i].auto_id = id
    /\ \A j \in 1..Len(lists) : j # i => lists[j].auto_id # id

\* The k-th preferred id resolves to control i, which has a visible item.
PreferredHit(k, i) ==
    Resolves(PREFERRED_LIST_IDS[k], i) /\ VisibleCount(i) >= 1

\* C10: once locate_library has run, it has raised its not-found error
\* exactly when no List control has a visible item, and then the run has
\* ended with nothing fetched and no key sent.  Otherwise it has returned a
\* control with a visible item: that of the first preferred id that resolves
\* to a control with a visible item, and if there is none, the control with
\* the most visible items, the first of them on a tie.
C10_Locate ==
    Outcome(trace, "locate_library") # None
    => /\ pc = "exit" <=> \A i \in 1..Len(lists) : VisibleCount(i) = 0
       /\ pc = "exit" => (/\ library = 0
                          /\ fetched = <<>>
                          /\ keys = EmptyBag
                          /\ Printed("fatal", 0) = 1)
       /\ pc # "exit"
          => /\ pc = "located"
             /\ library \in 1..Len(lists)
             /\ VisibleCount(library) >= 1
             /\ IF \E k \in 1..Len(PREFERRED_LIST_IDS), i \in 1..Len(lists) : PreferredHit(k, i)
                THEN \E k \in 1..Len(PREFERRED_LIST_IDS) :
                        /\ PreferredHit(k, library)
                        /\ \A k2 \in 1..(k - 1), i \in 1..Len(lists) : ~PreferredHit(k2, i)
                ELSE \A j \in 1..Len(lists) :
                        /\ VisibleCount(j) <= VisibleCount(library)
                        /\ j < library => VisibleCount(j) < VisibleCount(library)

====
